---- MODULE Spec2Model ----
(***************************************************************************)
(* sigilla: form state built from typed initial values, from FormData or   *)
(* from a serialized snapshot, with field and form level error lists.      *)
(*                                                                         *)
(* The repository holds two createForm implementations:                    *)
(*   "StandardSchema"  src/unnamed/part_000 (validate capability, values())*)
(*   "Zod"             src/src/form.ts      (schema.shape driven)          *)
(* The variable impl says which one a behaviour runs.                      *)
(***************************************************************************)
EXTENDS Integers, Sequences, FiniteSets, TLC

VARIABLES
    impl,      \* which createForm implementation was called
    schema,    \* the schema createForm was given: field name -> shape
    fieldOrder,\* the order in which the schema declares its fields
    setup,     \* how the createForm call went: [done, error, checks]
    objects,   \* heap of FormState objects: Seq of [record, fieldErrors, formErrors]
    forms,     \* the FormInstance objects: Seq of [formState (a heap index), validationResult]
    hist,      \* ghost: how each object and instance came to be, and what was done since
    pending,   \* validateForm calls suspended at their await: Seq of [formData, record]
    last,      \* the operation most recently completed, with its inputs
    nops       \* number of operations run so far

vars == <<impl, schema, fieldOrder, setup, objects, forms, pending, hist, last, nops>>

----------------------------------------------------------------------------
(* Bounds of the model *)

\* operations (entry operations and mutators) in one behaviour
MaxOps == 3
\* entries of a submitted FormData
MaxEntries == 3
\* optional/default/array wrappers around the leaf of a schema field
MaxWrappers == 2
\* items of an array among the initial values
MaxItems == 2
\* validateForm calls suspended at their await at the same time
MaxPending == 2
\* issues in one validator result
MaxIssues == 2

----------------------------------------------------------------------------
(* JavaScript values *)

Undefined == [defined |-> FALSE, s |-> ""]
Str(s) == [defined |-> TRUE, s |-> s]

\* a record entry: a bare string (isArray = FALSE, one item) or a string[]
StringValue(s) == [isArray |-> FALSE, items |-> <<s>>]
ArrayValue(items) == [isArray |-> TRUE, items |-> items]

\* !value for a record entry that may be missing: undefined and "" are falsy,
\* every array (also the empty one) is truthy
Falsy(rec, field) ==
    \/ field \notin DOMAIN rec
    \/ (~rec[field].isArray /\ rec[field].items[1] = "")

\* String.prototype.toLowerCase on the strings of the model
ToLowerCase(s) ==
    CASE s = "FALSE" -> "false"
      [] s = "Date" -> "date"
      [] s = "BigInt" -> "bigint"
      [] s = "False" -> "false"
      [] s = "ON" -> "on"
      [] OTHER -> s

\* obj[key] = v on a plain object
Put(obj, key, v) ==
    [k \in DOMAIN obj \cup {key} |-> IF k = key THEN v ELSE obj[k]]

EmptyObject == [k \in {} |-> <<>>]

----------------------------------------------------------------------------
(* StandardSchemaV1.Result, as FormInstance keeps it *)

\* no validationResult was passed to the constructor
NoResult == [present |-> FALSE, hasIssues |-> FALSE, issues |-> <<>>, value |-> "undefined"]
\* SuccessResult: { value }
SuccessResult(v) == [present |-> TRUE, hasIssues |-> FALSE, issues |-> <<>>, value |-> v]
\* FailureResult: { issues }; the issue list may be empty
FailureResult(is) == [present |-> TRUE, hasIssues |-> TRUE, issues |-> is, value |-> "undefined"]

\* a path segment: a bare PropertyKey k (isObject = FALSE) or a PathSegment {key: k}
Key(k) == [isObject |-> FALSE, key |-> k]
PathSegment(k) == [isObject |-> TRUE, key |-> k]
\* Issue: { message, path? }
Issue(m, p) == [message |-> m, hasPath |-> TRUE, path |-> p]
IssueNoPath(m) == [message |-> m, hasPath |-> FALSE, path |-> <<>>]

\* what JavaScript makes of a path segment used as a property name
ObjectObject == "[object Object]"
PropertyName(seg) == IF seg.isObject THEN ObjectObject ELSE seg.key

----------------------------------------------------------------------------
(* FormInstance: st is the FormState object the instance holds *)

get(st, field) ==
    IF Falsy(st.record, field) THEN Str("")
    ELSE IF ~st.record[field].isArray THEN Str(st.record[field].items[1])
    ELSE IF Len(st.record[field].items) = 0 THEN Undefined
    ELSE Str(st.record[field].items[1])

getAll(st, field) ==
    IF Falsy(st.record, field) THEN <<>>
    ELSE IF ~st.record[field].isArray THEN <<st.record[field].items[1]>>
    ELSE st.record[field].items

\* z.coerce.boolean().safeParse(value).success: Boolean(value) never fails
CoerceBooleanSucceeds(value) == TRUE

isTrueStandardSchema(st, field) ==
    LET value == get(st, field) IN
    IF ~value.defined \/ value.s = "" THEN FALSE
    ELSE LET lowerValue == ToLowerCase(value.s) IN
         lowerValue # "" /\ lowerValue # "false" /\ lowerValue # "0"

isTrueZod(st, field) ==
    LET value == get(st, field) IN
    IF ~value.defined \/ value.s = "" THEN FALSE
    ELSE CoerceBooleanSucceeds(value.s)

isTrue(im, st, field) ==
    IF im = "StandardSchema" THEN isTrueStandardSchema(st, field) ELSE isTrueZod(st, field)

\* mutant of error: an empty first message reads as no error
errorTruthy(st, field) ==
    IF field \in DOMAIN st.fieldErrors /\ Len(st.fieldErrors[field]) > 0
       /\ st.fieldErrors[field][1] # ""
    THEN Str(st.fieldErrors[field][1])
    ELSE Undefined

error(st, field) ==
    IF field \in DOMAIN st.fieldErrors /\ Len(st.fieldErrors[field]) > 0
    THEN Str(st.fieldErrors[field][1])
    ELSE Undefined

errors(st, field) ==
    IF field \in DOMAIN st.fieldErrors THEN st.fieldErrors[field] ELSE <<>>

isInvalid(st, field) ==
    LET fieldErrors == IF field \in DOMAIN st.fieldErrors THEN st.fieldErrors[field] ELSE <<>>
    IN Len(fieldErrors) > 0

addFormError(st, msg) ==
    [st EXCEPT !.formErrors = Append(@, msg)]

\* mutant of addFieldError: the list is set up anew on every call
addFieldErrorReplacing(st, field, msg) ==
    [st EXCEPT !.fieldErrors = Put(st.fieldErrors, field, <<msg>>)]

addFieldError(st, field, msg) ==
    LET created == IF field \notin DOMAIN st.fieldErrors
                   THEN Put(st.fieldErrors, field, <<>>)
                   ELSE st.fieldErrors
    IN [st EXCEPT !.fieldErrors = Put(created, field, Append(created[field], msg))]

\* mutant of clearEach: the form-level errors are emptied along with the fields
clearEachAndFormErrors(st, fields) ==
    [record |-> [k \in DOMAIN st.record \cup fields |-> StringValue("")],
     fieldErrors |-> [k \in DOMAIN st.fieldErrors \cup fields |-> <<>>],
     formErrors |-> <<>>]

\* mutant of clear: the field's value is reset, its error list is kept
clearValueOnly(st, field) ==
    [st EXCEPT !.record = Put(st.record, field, StringValue(""))]

clear(st, field) ==
    [st EXCEPT !.record = Put(st.record, field, StringValue("")),
               !.fieldErrors = Put(st.fieldErrors, field, <<>>)]

RECURSIVE clearEach(_, _)
clearEach(st, fields) ==
    IF fields = {} THEN st
    ELSE LET field == CHOOSE f \in fields : TRUE
         IN clearEach(clear(st, field), fields \ {field})

\* mutant of clearAll: only the keys of the record are cleared
clearAllRecordKeys(st) ==
    clearEach(st, DOMAIN st.record)

clearAll(st) ==
    clearEach(st, DOMAIN st.record \cup DOMAIN st.fieldErrors)

allFormErrors(st) == st.formErrors

\* mutant of isValid: a key in fieldErrors counts, whatever its list holds
isValidNoKeys(st) ==
    /\ Len(st.formErrors) = 0
    /\ DOMAIN st.fieldErrors = {}

isValid(st) ==
    /\ Len(st.formErrors) = 0
    /\ ~(\E field \in DOMAIN st.fieldErrors : Len(st.fieldErrors[field]) > 0)

isNotValid(st) == ~isValid(st)

\* values(): the outcome of the call, a return or a throw
Threw == [threw |-> TRUE, value |-> "undefined"]
Returned(v) == [threw |-> FALSE, value |-> v]

\* mutant of values: only a missing validationResult throws
valuesIgnoringIssues(validationResult) ==
    IF ~validationResult.present
    THEN Threw
    ELSE Returned(validationResult.value)

values(validationResult) ==
    IF ~validationResult.present \/ validationResult.hasIssues
    THEN Threw
    ELSE Returned(validationResult.value)

\* serialize() hands out the FormState object itself: form.formState is its heap index
serialize(form) == form.formState

----------------------------------------------------------------------------
(* Schema shapes (zod) *)

Leaf(kind, coerce) == [tag |-> "leaf", kind |-> kind, coerce |-> coerce]
ZodOptional(inner) == [tag |-> "optional", innerType |-> inner]
ZodDefault(inner) == [tag |-> "default", innerType |-> inner]
ZodArray(element) == [tag |-> "array", element |-> element]

\* fieldSchema instanceof z.ZodArray
IsZodArray(fieldSchema) == fieldSchema.tag = "array"

\* mutant of unwrapModifiers: one wrapper is stripped, not the whole chain
unwrapOneModifier(current) ==
    IF current.tag \in {"optional", "default"} THEN current.innerType ELSE current

\* unwrapModifiers: strip optional/default wrappers
RECURSIVE unwrapModifiers(_)
unwrapModifiers(current) ==
    IF current.tag \in {"optional", "default"}
    THEN unwrapModifiers(current.innerType)
    ELSE current

\* the field is declared as an array, directly or under optional/default
DeclaredArray(fieldSchema) == IsZodArray(unwrapModifiers(fieldSchema))

----------------------------------------------------------------------------
(* Runtime validation for schema compatibility (form.ts) *)

\* fieldSchema.constructor.name
ConstructorName(fieldSchema) ==
    CASE fieldSchema.tag = "array" -> "ZodArray"
      [] fieldSchema.tag = "optional" -> "ZodOptional"
      [] fieldSchema.tag = "default" -> "ZodDefault"
      [] fieldSchema.kind = "string" -> "ZodString"
      [] fieldSchema.kind = "stringFormat" -> "ZodEmail"
      [] fieldSchema.kind = "boolean" -> "ZodBoolean"
      [] fieldSchema.kind = "number" -> "ZodNumber"
      [] fieldSchema.kind = "date" -> "ZodDate"
      [] fieldSchema.kind = "bigint" -> "ZodBigInt"
      [] fieldSchema.kind = "object" -> "ZodObject"

\* fieldSchema instanceof z.Zod<Kind>
InstanceOf(fieldSchema, kind) == fieldSchema.tag = "leaf" /\ fieldSchema.kind = kind

\* the checker returned without throwing
NoError ==
    [threw |-> FALSE, reason |-> "none", fieldName |-> "", suffix |-> "",
     typeName |-> "", typeDescription |-> "", message |-> ""]

\* throw new Error(`Form field "..." uses unsupported type "..."...`)
UnsupportedTypeError(fieldName, suffix, typeName) ==
    [threw |-> TRUE, reason |-> "unsupported type", fieldName |-> fieldName,
     suffix |-> suffix, typeName |-> typeName, typeDescription |-> "",
     message |-> "Form field \"" \o fieldName \o suffix \o "\" uses unsupported type \""
                 \o typeName \o "\". Allowed types are: string, boolean, number, Date, "
                 \o "BigInt, and email/URL/other string formats."]

\* throw new Error(`Form field "..." is a ... but doesn't use coercion. ...`)
NoCoercionError(fieldName, suffix, typeName, typeDescription) ==
    [threw |-> TRUE, reason |-> "no coercion", fieldName |-> fieldName,
     suffix |-> suffix, typeName |-> typeName, typeDescription |-> typeDescription,
     message |-> "Form field \"" \o fieldName \o suffix \o "\" is a " \o typeDescription
                 \o " but doesn't use coercion. Use z.coerce."
                 \o ToLowerCase(typeDescription) \o "() instead of z."
                 \o ToLowerCase(typeDescription)
                 \o "() to accept string input from HTML forms."]

\* def?.coerce; zod v4 definitions carry no typeName, so the ZodEffects test is false
IsCoerced(fieldSchema) == fieldSchema.coerce

TypeDescription(fieldSchema) ==
    IF InstanceOf(fieldSchema, "boolean") THEN "boolean"
    ELSE IF InstanceOf(fieldSchema, "number") THEN "number"
    ELSE IF InstanceOf(fieldSchema, "date") THEN "Date"
    ELSE IF InstanceOf(fieldSchema, "bigint") THEN "BigInt"
    ELSE "this type"

IsAllowedType(fieldSchema) ==
    \/ InstanceOf(fieldSchema, "string")
    \/ InstanceOf(fieldSchema, "stringFormat")
    \/ InstanceOf(fieldSchema, "boolean")
    \/ InstanceOf(fieldSchema, "number")
    \/ InstanceOf(fieldSchema, "date")
    \/ InstanceOf(fieldSchema, "bigint")

Suffix(isArrayElement) == IF isArrayElement THEN "[] (array element)" ELSE ""

\* mutant of validateBaseFieldType: the coercion test runs before the type test
validateBaseFieldTypeCoercionFirst(fieldName, fieldSchema, isArrayElement) ==
    LET typeName == ConstructorName(fieldSchema)
        suffix == Suffix(isArrayElement)
    IN IF /\ fieldSchema.tag = "leaf"
          /\ ~InstanceOf(fieldSchema, "string") /\ ~InstanceOf(fieldSchema, "stringFormat")
          /\ ~IsCoerced(fieldSchema)
       THEN NoCoercionError(fieldName, suffix, typeName, TypeDescription(fieldSchema))
       ELSE IF ~IsAllowedType(fieldSchema)
       THEN UnsupportedTypeError(fieldName, suffix, typeName)
       ELSE NoError

validateBaseFieldType(fieldName, fieldSchema, isArrayElement) ==
    LET typeName == ConstructorName(fieldSchema)
        suffix == Suffix(isArrayElement)
    IN IF ~IsAllowedType(fieldSchema)
       THEN UnsupportedTypeError(fieldName, suffix, typeName)
       ELSE IF /\ ~InstanceOf(fieldSchema, "string") /\ ~InstanceOf(fieldSchema, "stringFormat")
               /\ ~IsCoerced(fieldSchema)
       THEN NoCoercionError(fieldName, suffix, typeName, TypeDescription(fieldSchema))
       ELSE NoError

\* mutant of validateFieldSchema: the elements of an array field are not looked at
validateFieldSchemaArraysUnchecked(fieldName, fieldSchema) ==
    LET unwrapped == unwrapModifiers(fieldSchema) IN
    IF IsZodArray(unwrapped)
    THEN NoError
    ELSE validateBaseFieldType(fieldName, unwrapped, FALSE)

validateFieldSchema(fieldName, fieldSchema) ==
    LET unwrapped == unwrapModifiers(fieldSchema) IN
    IF IsZodArray(unwrapped)
    THEN validateBaseFieldType(fieldName, unwrapModifiers(unwrapped.element), TRUE)
    ELSE validateBaseFieldType(fieldName, unwrapped, FALSE)

\* the loop over Object.entries(schema.shape): the first throw ends it
RECURSIVE validateSchemaCompatibilityFrom(_, _, _)
validateSchemaCompatibilityFrom(sch, order, i) ==
    IF i > Len(order) THEN NoError
    ELSE LET outcome == validateFieldSchema(order[i], sch[order[i]])
         IN IF outcome.threw THEN outcome
            ELSE validateSchemaCompatibilityFrom(sch, order, i + 1)

validateSchemaCompatibility(sch, order) == validateSchemaCompatibilityFrom(sch, order, 1)

----------------------------------------------------------------------------
(* FormData: a sequence of entries [name, value], values are strings *)

Entry(name, value) == [name |-> name, value |-> value]

RECURSIVE formDataGetAll(_, _)
formDataGetAll(formData, name) ==
    IF formData = <<>> THEN <<>>
    ELSE IF Head(formData).name = name
         THEN <<Head(formData).value>> \o formDataGetAll(Tail(formData), name)
         ELSE formDataGetAll(Tail(formData), name)

\* formData.get(name): the first value, or null
formDataGet(formData, name) ==
    LET all == formDataGetAll(formData, name)
    IN IF all = <<>> THEN Undefined ELSE Str(all[1])

\* toFormObject: one pass over formData.keys(), a key per entry
RECURSIVE toFormObjectFrom(_, _, _)
toFormObjectFrom(formData, i, result) ==
    IF i > Len(formData) THEN result
    ELSE LET key == formData[i].name
             vals == formDataGetAll(formData, key)
         IN toFormObjectFrom(formData, i + 1,
                Put(result, key,
                    IF Len(vals) = 1 THEN StringValue(vals[1]) ELSE ArrayValue(vals)))

toFormObject(formData) == toFormObjectFrom(formData, 1, EmptyObject)

\* the Zod validateForm's loop over Object.keys(schema.shape)
populateFormData(sch, formData) ==
    [field \in DOMAIN sch |->
        IF IsZodArray(sch[field])
        THEN ArrayValue(formDataGetAll(formData, field))
        ELSE LET first == formDataGet(formData, field)
             IN StringValue(IF first.defined /\ first.s # "" THEN first.s ELSE "")]

----------------------------------------------------------------------------
(* validateForm: issues into fieldErrors / formErrors *)

EmptyErrors == [fieldErrors |-> EmptyObject, formErrors |-> <<>>]

\* mutant of translateIssue: an issue without a path is dropped
translateIssueFieldsOnly(acc, issue) ==
    IF ~issue.hasPath \/ Len(issue.path) = 0
    THEN acc
    ELSE LET field == PropertyName(issue.path[1])
         IN [acc EXCEPT !.fieldErrors =
                Put(acc.fieldErrors, field,
                    Append(IF field \in DOMAIN acc.fieldErrors
                           THEN acc.fieldErrors[field] ELSE <<>>, issue.message))]

\* one turn of the for-loop over result.issues
translateIssue(acc, issue) ==
    IF ~issue.hasPath \/ Len(issue.path) = 0
    THEN [acc EXCEPT !.formErrors = Append(@, issue.message)]
    ELSE LET field == PropertyName(issue.path[1])
             created == IF field \notin DOMAIN acc.fieldErrors
                        THEN Put(acc.fieldErrors, field, <<>>)
                        ELSE acc.fieldErrors
         IN [acc EXCEPT !.fieldErrors = Put(created, field, Append(created[field], issue.message))]

\* mutant of translateIssues: the pass over the issues ends after the first
translateIssuesFirstOnly(issues, i, acc) ==
    IF i > Len(issues) THEN acc ELSE translateIssue(acc, issues[i])

RECURSIVE translateIssues(_, _, _)
translateIssues(issues, i, acc) ==
    IF i > Len(issues) THEN acc
    ELSE translateIssues(issues, i + 1, translateIssue(acc, issues[i]))

\* the FormState validateForm builds from the record and the validator's result
validatedState(record, result) ==
    LET errs == IF result.hasIssues
                THEN translateIssues(result.issues, 1, EmptyErrors)
                ELSE EmptyErrors
    IN [record |-> record, fieldErrors |-> errs.fieldErrors, formErrors |-> errs.formErrors]

----------------------------------------------------------------------------
(* newForm: typed initial values into a record *)

TString(s) == [type |-> "string", s |-> s]
TNumber(n) == [type |-> "number", n |-> n]
TBoolean(b) == [type |-> "boolean", b |-> b]
TNull == [type |-> "null"]
TUndefined == [type |-> "undefined"]
TArray(elems) == [type |-> "array", elems |-> elems]

Digit(d) ==
    CASE d = 0 -> "0" [] d = 1 -> "1" [] d = 2 -> "2" [] d = 3 -> "3" [] d = 4 -> "4"
      [] d = 5 -> "5" [] d = 6 -> "6" [] d = 7 -> "7" [] d = 8 -> "8" [] d = 9 -> "9"

\* Number.prototype.toString for the naturals
RECURSIVE NumberToString(_)
NumberToString(n) ==
    IF n < 10 THEN Digit(n) ELSE NumberToString(n \div 10) \o Digit(n % 10)

\* String(value) / value.toString() for a string, number or boolean
ToStringJS(v) ==
    CASE v.type = "string" -> v.s
      [] v.type = "number" -> NumberToString(v.n)
      [] v.type = "boolean" -> IF v.b THEN "true" ELSE "false"

\* the truthiness of a value
TruthyJS(v) ==
    CASE v.type = "string" -> v.s # ""
      [] v.type = "number" -> v.n # 0
      [] v.type = "boolean" -> v.b
      [] v.type \in {"null", "undefined"} -> FALSE
      [] v.type = "array" -> TRUE

Nullish(v) == v.type \in {"null", "undefined"}

NoInitialValues == [given |-> FALSE, entries |-> EmptyObject]
InitialValues(entries) == [given |-> TRUE, entries |-> entries]

\* part_000: item.toString() on a null or undefined array item is a TypeError
newFormThrowsStandardSchema(initialValues) ==
    \E key \in DOMAIN initialValues.entries :
        /\ initialValues.entries[key].type = "array"
        /\ \E i \in 1..Len(initialValues.entries[key].elems) :
               Nullish(initialValues.entries[key].elems[i])

newFormRecordStandardSchema(initialValues) ==
    [key \in DOMAIN initialValues.entries |->
        LET value == initialValues.entries[key] IN
        IF value.type = "array"
        THEN ArrayValue([i \in 1..Len(value.elems) |-> ToStringJS(value.elems[i])])
        ELSE StringValue(IF TruthyJS(value) THEN ToStringJS(value) ELSE "")]

newFormRecordZod(initialValues) ==
    [key \in {k \in DOMAIN initialValues.entries : ~Nullish(initialValues.entries[k])} |->
        LET value == initialValues.entries[key] IN
        IF value.type = "array"
        THEN ArrayValue([i \in 1..Len(value.elems) |->
                            IF Nullish(value.elems[i]) THEN "" ELSE ToStringJS(value.elems[i])])
        ELSE StringValue(ToStringJS(value))]

newFormThrows(im, initialValues) ==
    im = "StandardSchema" /\ newFormThrowsStandardSchema(initialValues)

\* the FormState newForm builds
newFormState(im, initialValues) ==
    [record |-> IF im = "StandardSchema"
                THEN newFormRecordStandardSchema(initialValues)
                ELSE newFormRecordZod(initialValues),
     fieldErrors |-> EmptyObject,
     formErrors |-> <<>>]

----------------------------------------------------------------------------
(* createForm and the operations it returns *)

\* new FormInstance(state, validationResult?): state is a heap index
FormInstance(state, validationResult) ==
    [formState |-> state, validationResult |-> validationResult]

\* mutant of loadForm: every load shows the first state ever built
loadFormFirstState(serializedState) == FormInstance(1, NoResult)

loadForm(serializedState) == FormInstance(serializedState, NoResult)

\* a snapshot that went through the loader/action boundary: an equal, separate object
Transported(st) ==
    [record |-> [k \in DOMAIN st.record |-> st.record[k]],
     fieldErrors |-> [k \in DOMAIN st.fieldErrors |-> st.fieldErrors[k]],
     formErrors |-> st.formErrors]

\* the FormState object instance i holds
StateOf(i) == objects[forms[i].formState]

NoOp == [op |-> "none", form |-> 0, source |-> 0, field |-> "", msg |-> "",
         formData |-> <<>>, result |-> NoResult, raised |-> "",
         initialValues |-> NoInitialValues]
Op(op, form, field, msg) == [NoOp EXCEPT !.op = op, !.form = form, !.field = field, !.msg = msg]

\* the keys an object holds, in its record or in its field error collection
KeysOf(st) == DOMAIN st.record \cup DOMAIN st.fieldErrors

\* ghost, per FormState object: the field errors it was made with, what
\* addFieldError appended since, whether clear or clearAll ran on it, and every
\* key its record or field error collection held at some point, and every
\* field an error was added to at some point
ObjectHist(st) ==
    [validated |-> st.fieldErrors, appended |-> EmptyObject, cleared |-> FALSE,
     seen |-> KeysOf(st),
     errored |-> {f \in DOMAIN st.fieldErrors : st.fieldErrors[f] # <<>>}]

\* ghost, per instance: the entry operation that made it and the validator's answer
FormHist(origin, result) == [origin |-> origin, result |-> result]

\* ghost, per behaviour: validateForm calls begun, and invocations of the
\* validate capability
NoHist == [objects |-> <<>>, forms |-> <<>>, calls |-> 0, invocations |-> 0]

Allocate(st, validationResult, origin, result) ==
    /\ objects' = Append(objects, st)
    /\ forms' = Append(forms, FormInstance(Len(objects) + 1, validationResult))
    /\ hist' = [hist EXCEPT !.objects = Append(@, ObjectHist(st)),
                             !.forms = Append(@, FormHist(origin, result))]

\* validateForm has begun and has invoked the validate capability
Invoked(h) == [h EXCEPT !.calls = @ + 1, !.invocations = @ + 1]

Mutate(i, st) ==
    /\ objects' = [objects EXCEPT ![forms[i].formState] = st]
    /\ UNCHANGED <<forms, pending>>

\* createForm has not been called yet
NotSetUp == [done |-> FALSE, error |-> NoError, checks |-> 0]

\* mutant of createForm: the schema is bound without being looked at
createFormUnchecked(im, sch, order) ==
    [done |-> TRUE, error |-> NoError, checks |-> 0]

\* createForm: form.ts validates the schema first, part_000 has no such step;
\* checks counts the runs of validateSchemaCompatibility
createForm(im, sch, order) ==
    IF im = "Zod"
    THEN [done |-> TRUE, error |-> validateSchemaCompatibility(sch, order), checks |-> 1]
    ELSE [done |-> TRUE, error |-> NoError, checks |-> 0]

\* createForm returned { newForm, validateForm, loadForm }
OperationsReturned == setup.done /\ ~setup.error.threw

Init0(impls, schemas) ==
    /\ impl \in impls
    /\ schema \in schemas
    /\ fieldOrder = <<"name", "tags">>
    /\ setup = NotSetUp
    /\ objects = <<>>
    /\ forms = <<>>
    /\ pending = <<>>
    /\ hist = NoHist
    /\ last = NoOp
    /\ nops = 0

CreateForm ==
    /\ ~setup.done
    /\ setup' = createForm(impl, schema, fieldOrder)
    /\ last' = Op("createForm", 0, "", "")
    /\ UNCHANGED <<impl, schema, fieldOrder, objects, forms, pending, hist, nops>>

NewForm(initialValues) ==
    /\ OperationsReturned
    /\ nops < MaxOps
    /\ ~newFormThrows(impl, initialValues)
    /\ Allocate(newFormState(impl, initialValues), NoResult, "newForm", NoResult)
    /\ last' = [Op("newForm", Len(forms) + 1, "", "") EXCEPT !.initialValues = initialValues]
    /\ nops' = nops + 1
    /\ UNCHANGED <<impl, schema, fieldOrder, setup, pending>>

\* part_000 newForm on an array with a null or undefined item: the TypeError of
\* item.toString() leaves newForm before a FormInstance is built
NewFormRaise(initialValues) ==
    /\ OperationsReturned
    /\ nops < MaxOps
    /\ newFormThrows(impl, initialValues)
    /\ last' = [Op("newFormRaised", 0, "", "") EXCEPT !.initialValues = initialValues]
    /\ nops' = nops + 1
    /\ UNCHANGED <<impl, schema, fieldOrder, setup, objects, forms, pending, hist>>

\* part_000 validateForm up to its await: the record is read, validate is called
ValidateFormCall(formData) ==
    /\ OperationsReturned
    /\ impl = "StandardSchema"
    /\ nops < MaxOps
    /\ pending' = Append(pending, [formData |-> formData, record |-> toFormObject(formData)])
    /\ hist' = Invoked(hist)
    /\ last' = [Op("validateFormCall", 0, "", "") EXCEPT !.formData = formData]
    /\ nops' = nops + 1
    /\ UNCHANGED <<impl, schema, fieldOrder, setup, objects, forms>>

\* what a validate capability may throw or reject with
RaisedErrors == {"TypeError: validate failed"}

RemoveAt(seq, p) == [j \in 1..(Len(seq) - 1) |-> IF j < p THEN seq[j] ELSE seq[j + 1]]

\* mutant of recordOf: one record variable is shared by all calls
recordOfLatest(calls, p) == calls[Len(calls)].record

\* the local variable record of suspended call p
recordOf(calls, p) == calls[p].record

\* part_000 validateForm after its await: the validator's result has arrived
ValidateFormReturn(p, result) ==
    /\ p \in 1..Len(pending)
    /\ Allocate(validatedState(recordOf(pending, p), result), result, "validateForm", result)
    /\ pending' = RemoveAt(pending, p)
    /\ last' = [Op("validateForm", Len(forms) + 1, "", "") EXCEPT
                    !.formData = pending[p].formData, !.result = result, !.source = p]
    /\ UNCHANGED <<impl, schema, fieldOrder, setup, nops>>

\* mutant of rejection: the validator's error is replaced by one of the library
rejectionWrapped(reason) == "Error: Cannot validate form"

\* what the promise of validateForm rejects with when the await throws reason:
\* there is no try/catch around it
rejection(reason) == reason

\* mutant of afterRaise: the call stays suspended after the validator raised
afterRaiseRetrying(calls, p) == calls

\* the suspended calls once call p has ended
afterRaise(calls, p) == RemoveAt(calls, p)

\* the validate capability raised or its promise rejected: the error propagates
ValidateFormRaise(p) ==
    /\ p \in 1..Len(pending)
    /\ pending' = afterRaise(pending, p)
    /\ \E reason \in RaisedErrors :
           last' = [Op("validateFormRaised", 0, "", rejection(reason)) EXCEPT
                        !.formData = pending[p].formData, !.raised = reason]
    /\ UNCHANGED <<impl, schema, fieldOrder, setup, objects, forms, hist, nops>>

\* form.ts validateForm: synchronous, schema.safeParse does not throw
ValidateFormZod(formData, result) ==
    /\ OperationsReturned
    /\ impl = "Zod"
    /\ nops < MaxOps
    /\ objects' = Append(objects, validatedState(populateFormData(schema, formData), result))
    /\ forms' = Append(forms, FormInstance(Len(objects) + 1, NoResult))
    /\ hist' = [Invoked(hist) EXCEPT
                    !.objects = Append(@, ObjectHist(objects'[Len(objects) + 1])),
                    !.forms = Append(@, FormHist("validateForm", result))]
    /\ last' = [Op("validateForm", Len(forms) + 1, "", "") EXCEPT
                    !.formData = formData, !.result = result]
    /\ nops' = nops + 1
    /\ UNCHANGED <<impl, schema, fieldOrder, setup, pending>>

\* loadForm(forms[i].serialize()) within one process
LoadForm(i) ==
    /\ i \in 1..Len(forms)
    /\ nops < MaxOps
    /\ forms' = Append(forms, loadForm(serialize(forms[i])))
    /\ hist' = [hist EXCEPT !.forms = Append(@, FormHist("loadForm", NoResult))]
    /\ last' = [Op("loadForm", Len(forms) + 1, "", "") EXCEPT !.source = i]
    /\ nops' = nops + 1
    /\ UNCHANGED <<impl, schema, fieldOrder, setup, objects, pending>>

\* loadForm of a snapshot that crossed the loader/action boundary
LoadFormTransported(i) ==
    /\ i \in 1..Len(forms)
    /\ nops < MaxOps
    /\ objects' = Append(objects, Transported(StateOf(i)))
    /\ forms' = Append(forms, loadForm(Len(objects) + 1))
    /\ hist' = [hist EXCEPT
                    !.objects = Append(@, [ObjectHist(StateOf(i)) EXCEPT
                                    !.errored = hist.objects[forms[i].formState].errored]),
                    !.forms = Append(@, FormHist("loadForm", NoResult))]
    /\ last' = [Op("loadFormTransported", Len(forms) + 1, "", "") EXCEPT !.source = i]
    /\ nops' = nops + 1
    /\ UNCHANGED <<impl, schema, fieldOrder, setup, pending>>

AddFormError(i, msg) ==
    /\ i \in 1..Len(forms)
    /\ nops < MaxOps
    /\ Mutate(i, addFormError(StateOf(i), msg))
    /\ last' = Op("addFormError", i, "", msg)
    /\ nops' = nops + 1
    /\ UNCHANGED <<impl, schema, fieldOrder, setup, hist>>

AddFieldError(i, field, msg) ==
    /\ i \in 1..Len(forms)
    /\ nops < MaxOps
    /\ Mutate(i, addFieldError(StateOf(i), field, msg))
    /\ hist' = [hist EXCEPT !.objects[forms[i].formState].appended =
                    Put(@, field, (IF field \in DOMAIN @ THEN @[field] ELSE <<>>) \o <<msg>>),
                             !.objects[forms[i].formState].seen =
                    @ \cup KeysOf(addFieldError(StateOf(i), field, msg)),
                             !.objects[forms[i].formState].errored = @ \cup {field}]
    /\ last' = Op("addFieldError", i, field, msg)
    /\ nops' = nops + 1
    /\ UNCHANGED <<impl, schema, fieldOrder, setup>>

Clear(i, field) ==
    /\ i \in 1..Len(forms)
    /\ nops < MaxOps
    /\ Mutate(i, clear(StateOf(i), field))
    /\ hist' = [hist EXCEPT !.objects[forms[i].formState].cleared = TRUE,
                             !.objects[forms[i].formState].seen =
                    @ \cup KeysOf(clear(StateOf(i), field))]
    /\ last' = Op("clear", i, field, "")
    /\ nops' = nops + 1
    /\ UNCHANGED <<impl, schema, fieldOrder, setup>>

ClearAll(i) ==
    /\ i \in 1..Len(forms)
    /\ nops < MaxOps
    /\ Mutate(i, clearAll(StateOf(i)))
    /\ hist' = [hist EXCEPT !.objects[forms[i].formState].cleared = TRUE,
                             !.objects[forms[i].formState].seen =
                    @ \cup KeysOf(clearAll(StateOf(i)))]
    /\ last' = Op("clearAll", i, "", "")
    /\ nops' = nops + 1
    /\ UNCHANGED <<impl, schema, fieldOrder, setup>>

----------------------------------------------------------------------------
(* Inputs *)

Impls == {"StandardSchema", "Zod"}

\* a scalar field and an array field; the array declared directly or as optional
SchemaDirect == [name |-> Leaf("string", FALSE), tags |-> ZodArray(Leaf("string", FALSE))]
SchemaOptional ==
    [name |-> Leaf("string", FALSE), tags |-> ZodOptional(ZodArray(Leaf("string", FALSE)))]
Schemas == {SchemaDirect, SchemaOptional}

Messages == {"e1", "e2"}

\* what the validate capability may answer in the life-cycle behaviours
SomeResults(im) ==
    {SuccessResult("parsed"),
     FailureResult(<<Issue("e1", <<Key("name")>>)>>),
     FailureResult(<<Issue("e2", <<Key("tags")>>), IssueNoPath("e1")>>)}
    \cup IF im = "StandardSchema" THEN {FailureResult(<<>>)} ELSE {}

SomeFormData ==
    {<<Entry("name", "a"), Entry("tags", "x"), Entry("tags", "y")>>,
     <<Entry("name", "false"), Entry("extra", "z")>>}

SomeInitialValues ==
    {NoInitialValues,
     InitialValues([name |-> TString("a"), tags |-> TArray(<<>>)])}

----------------------------------------------------------------------------
(* The life cycle of form instances *)

Init == Init0(Impls, {SchemaDirect})

Next ==
    \/ CreateForm
    \/ \E initialValues \in SomeInitialValues : NewForm(initialValues)
    \/ pending = <<>> /\ \E formData \in SomeFormData : ValidateFormCall(formData)
    \/ \E p \in 1..Len(pending), result \in SomeResults(impl) : ValidateFormReturn(p, result)
    \/ \E p \in 1..Len(pending) : ValidateFormRaise(p)
    \/ \E formData \in SomeFormData, result \in SomeResults(impl) : ValidateFormZod(formData, result)
    \/ \E i \in 1..Len(forms) : LoadForm(i)
    \/ \E i \in 1..Len(forms) : LoadFormTransported(i)
    \/ \E i \in 1..Len(forms), msg \in Messages : AddFormError(i, msg)
    \/ \E i \in 1..Len(forms), field \in DOMAIN schema, msg \in Messages : AddFieldError(i, field, msg)
    \/ \E i \in 1..Len(forms), field \in DOMAIN schema : Clear(i, field)
    \/ \E i \in 1..Len(forms) : ClearAll(i)

Spec == Init /\ [][Next]_vars

----------------------------------------------------------------------------
(* One validateForm call on every submission up to MaxEntries entries *)

SubmittedNames == {"name", "tags", "extra"}
SubmittedValues == {"", "on", "FALSE", "0"}
Entries == {Entry(n, v) : n \in SubmittedNames, v \in SubmittedValues}

SeqsUpTo(S, n) == UNION {[1..k -> S] : k \in 0..n}

AllFormData == SeqsUpTo(Entries, MaxEntries)

FewResults == {SuccessResult("parsed"), FailureResult(<<Issue("e1", <<Key("name")>>)>>)}

InitNormalize == Init0(Impls, Schemas)

NextNormalize ==
    \/ CreateForm
    \/ nops = 0 /\ \E formData \in AllFormData : ValidateFormCall(formData)
    \/ \E p \in 1..Len(pending), result \in FewResults : ValidateFormReturn(p, result)
    \/ \E p \in 1..Len(pending) : ValidateFormRaise(p)
    \/ nops = 0 /\ \E formData \in AllFormData, result \in FewResults :
                       ValidateFormZod(formData, result)

SpecNormalize == InitNormalize /\ [][NextNormalize]_vars

----------------------------------------------------------------------------
(* One validateForm call on every validator result up to MaxIssues issues *)

\* the paths an issue may carry
Paths ==
    {<<>>, <<Key("name")>>, <<Key("tags")>>, <<PathSegment("name")>>,
     <<Key("tags"), Key("0")>>}

\* part_000 takes any Standard Schema result
StandardSchemaIssues ==
    {Issue(m, p) : m \in Messages, p \in Paths} \cup {IssueNoPath(m) : m \in Messages}

\* zod issues always carry a path of bare keys, and a failure has an issue
ZodIssues ==
    {Issue(m, p) : m \in Messages,
                   p \in {q \in Paths : \A j \in 1..Len(q) : ~q[j].isObject}}

ParsedValues == {"parsed1", "parsed2"}

AllResults(im) ==
    {SuccessResult(v) : v \in ParsedValues}
    \cup IF im = "StandardSchema"
         THEN {FailureResult(is) : is \in SeqsUpTo(StandardSchemaIssues, MaxIssues)}
         ELSE {FailureResult(is) : is \in SeqsUpTo(ZodIssues, MaxIssues) \ {<<>>}}

InitTranslate == Init0(Impls, {SchemaDirect})

NextTranslate ==
    \/ CreateForm
    \/ nops = 0 /\ \E formData \in SomeFormData : ValidateFormCall(formData)
    \/ \E p \in 1..Len(pending), result \in AllResults(impl) : ValidateFormReturn(p, result)
    \/ \E p \in 1..Len(pending) : ValidateFormRaise(p)
    \/ nops = 0 /\ \E formData \in SomeFormData, result \in AllResults(impl) :
                       ValidateFormZod(formData, result)

SpecTranslate == InitTranslate /\ [][NextTranslate]_vars

----------------------------------------------------------------------------
(* createForm on every schema whose first field nests up to MaxWrappers
   wrappers, then one entry operation *)

Leaves ==
    {Leaf("string", c) : c \in BOOLEAN}
    \cup {Leaf("stringFormat", FALSE), Leaf("object", FALSE)}
    \cup {Leaf(k, c) : k \in {"boolean", "number", "date", "bigint"}, c \in BOOLEAN}

\* the leaves under at most n of .optional(), .default(), z.array()
RECURSIVE Shapes(_)
Shapes(n) ==
    IF n = 0 THEN Leaves
    ELSE LET inner == Shapes(n - 1)
         IN inner \cup {ZodOptional(x) : x \in inner}
                  \cup {ZodDefault(x) : x \in inner}
                  \cup {ZodArray(x) : x \in inner}

\* what the second field is declared as
OtherShapes ==
    {ZodArray(Leaf("string", FALSE)), ZodArray(Leaf("boolean", FALSE)),
     Leaf("number", FALSE), Leaf("object", FALSE)}

AllSchemas == {[name |-> a, tags |-> b] : a \in Shapes(MaxWrappers), b \in OtherShapes}

InitSetup ==
    /\ impl \in Impls
    /\ schema \in AllSchemas
    /\ fieldOrder \in {<<"name", "tags">>, <<"tags", "name">>}
    /\ setup = NotSetUp
    /\ objects = <<>>
    /\ forms = <<>>
    /\ pending = <<>>
    /\ hist = NoHist
    /\ last = NoOp
    /\ nops = 0

OneFormData == <<Entry("name", "a"), Entry("tags", "x"), Entry("tags", "y")>>

NextSetup ==
    \/ CreateForm
    \/ nops = 0 /\ NewForm(NoInitialValues)
    \/ nops = 0 /\ ValidateFormCall(OneFormData)
    \/ \E p \in 1..Len(pending), result \in FewResults : ValidateFormReturn(p, result)
    \/ \E p \in 1..Len(pending) : ValidateFormRaise(p)
    \/ nops = 0 /\ \E result \in FewResults : ValidateFormZod(OneFormData, result)
    \/ nops = 1 /\ \E i \in 1..Len(forms) : LoadForm(i)

SpecSetup == InitSetup /\ [][NextSetup]_vars

----------------------------------------------------------------------------
(* One newForm call on typed initial values *)

ScalarValues ==
    {TString(""), TString("a"), TNumber(0), TNumber(42), TBoolean(TRUE), TBoolean(FALSE),
     TNull, TUndefined}

ItemValues == {TString("x"), TNumber(0), TBoolean(FALSE), TNull}

ArrayValues == {TArray(items) : items \in SeqsUpTo(ItemValues, MaxItems)}

\* initialValues?: Partial<SchemaType>: every field may be left out
AllInitialValues ==
    {NoInitialValues}
    \cup {InitialValues(entries) :
             entries \in UNION {[given -> ScalarValues \cup ArrayValues] :
                                   given \in SUBSET {"name", "tags"}}}

InitNewForm == Init0(Impls, {SchemaDirect})

NextNewForm ==
    \/ CreateForm
    \/ nops = 0 /\ \E initialValues \in AllInitialValues : NewForm(initialValues)
    \/ nops = 0 /\ \E initialValues \in AllInitialValues : NewFormRaise(initialValues)

SpecNewForm == InitNewForm /\ [][NextNewForm]_vars

----------------------------------------------------------------------------
(* Error messages that may be the empty string *)

AllMessages == {"", "e1"}

ResultsWithEmptyMessage ==
    {FailureResult(<<Issue("", <<Key("name")>>)>>),
     FailureResult(<<Issue("e1", <<Key("tags")>>), Issue("", <<Key("tags")>>)>>)}

InitMessages == Init0(Impls, {SchemaDirect})

NextMessages ==
    \/ CreateForm
    \/ nops = 0 /\ NewForm(NoInitialValues)
    \/ nops = 0 /\ ValidateFormCall(OneFormData)
    \/ \E p \in 1..Len(pending), result \in ResultsWithEmptyMessage : ValidateFormReturn(p, result)
    \/ \E p \in 1..Len(pending) : ValidateFormRaise(p)
    \/ nops = 0 /\ \E result \in ResultsWithEmptyMessage : ValidateFormZod(OneFormData, result)
    \/ \E i \in 1..Len(forms), field \in DOMAIN schema, msg \in AllMessages :
           AddFieldError(i, field, msg)
    \/ \E i \in 1..Len(forms), field \in DOMAIN schema : Clear(i, field)

SpecMessages == InitMessages /\ [][NextMessages]_vars

----------------------------------------------------------------------------
(* validateForm calls that overlap: up to MaxPending are suspended at once *)

InitConcurrent == Init0(Impls, {SchemaDirect})

NextConcurrent ==
    \/ CreateForm
    \/ Len(pending) < MaxPending /\ \E formData \in SomeFormData : ValidateFormCall(formData)
    \/ \E p \in 1..Len(pending), result \in SomeResults(impl) : ValidateFormReturn(p, result)
    \/ \E p \in 1..Len(pending) : ValidateFormRaise(p)
    \/ nops = 0 /\ \E formData \in SomeFormData, result \in SomeResults(impl) :
                       ValidateFormZod(formData, result)

SpecConcurrent == InitConcurrent /\ [][NextConcurrent]_vars

----------------------------------------------------------------------------
(* Properties *)

\* the field names the accessors are asked about
ObservedFields == SubmittedNames \cup {ObjectObject}

\* the step just taken was operation op
Stepped(op) == last'.op = op /\ (nops' = nops + 1 \/ last' # last)

\* what the read accessors show of a FormState
Observed(st) ==
    [get |-> [f \in ObservedFields |-> get(st, f)],
     getAll |-> [f \in ObservedFields |-> getAll(st, f)],
     error |-> [f \in ObservedFields |-> error(st, f)],
     errors |-> [f \in ObservedFields |-> errors(st, f)],
     allFormErrors |-> allFormErrors(st),
     isValid |-> isValid(st)]

\* C1: serialization round trip. Right after loadForm(X.serialize()), in one
\* process or on a snapshot that was transported, the loaded instance answers
\* get, getAll, error, errors (every field), allFormErrors and isValid as X does.
C1_RoundTrip ==
    last.op \in {"loadForm", "loadFormTransported"} =>
        Observed(StateOf(last.form)) = Observed(StateOf(last.source))

\* C1 witness: X was made by validateForm with field errors, got another error
\* by addFieldError, and was then loaded from its serialize() output
C1_Witness ==
    /\ last.op = "loadForm"
    /\ last.source # last.form
    /\ hist.forms[last.source].origin = "validateForm"
    /\ hist.objects[forms[last.source].formState].appended # EmptyObject
    /\ \E f \in ObservedFields : Len(errors(StateOf(last.form), f)) > 1
    /\ \E f \in ObservedFields : Len(getAll(StateOf(last.form), f)) > 1

\* C2: values() throws on every instance without a successful typed result:
\* made by newForm, made by loadForm, or made by a validateForm whose validator
\* returned issues; whatever mutators ran since, also when isValid() is true again.
C2_ValuesThrows ==
    impl = "StandardSchema" =>
        \A i \in 1..Len(forms) :
            (\/ hist.forms[i].origin \in {"newForm", "loadForm"}
             \/ hist.forms[i].result.hasIssues)
            => values(forms[i].validationResult).threw

\* C2 witness: a failed validation whose errors were cleared, so isValid() is
\* true again, and an instance loaded from its snapshot
C2_Witness ==
    /\ impl = "StandardSchema"
    /\ \E i, j \in 1..Len(forms) :
           /\ hist.forms[i].origin = "validateForm"
           /\ Len(hist.forms[i].result.issues) > 0
           /\ hist.objects[forms[i].formState].cleared
           /\ isValid(StateOf(i))
           /\ hist.forms[j].origin = "loadForm"
           /\ forms[j].formState = forms[i].formState

\* C3: right after validateForm returns, values() returns the validator's
\* parsed value exactly when isValid() is true, and a success leaves the field
\* error collection and the form-level error list empty.
C3_ValuesIffValid ==
    (impl = "StandardSchema" /\ last.op = "validateForm") =>
        LET st == StateOf(last.form)
            out == values(forms[last.form].validationResult)
        IN /\ (~out.threw /\ out.value = last.result.value) <=> isValid(st)
           /\ ~last.result.hasIssues =>
                  (st.fieldErrors = EmptyObject /\ st.formErrors = <<>>)

\* C4: values() throws whenever the form is invalid: on every instance made by
\* validateForm, whatever mutators ran since, isNotValid() implies that values()
\* throws.
C4_ValuesThrowsWhenInvalid ==
    impl = "StandardSchema" =>
        \A i \in 1..Len(forms) :
            (hist.forms[i].origin = "validateForm" /\ isNotValid(StateOf(i)))
            => values(forms[i].validationResult).threw

Pathless(issue) == ~issue.hasPath \/ Len(issue.path) = 0

\* the messages, in issue-list order, of the issues with an absent or empty path
RECURSIVE MessagesOfForm(_)
MessagesOfForm(issues) ==
    IF issues = <<>> THEN <<>>
    ELSE (IF Pathless(Head(issues)) THEN <<Head(issues).message>> ELSE <<>>)
         \o MessagesOfForm(Tail(issues))

\* the messages, in issue-list order, of the issues whose first path segment,
\* a bare key or a {key} object, names field
RECURSIVE MessagesOfField(_, _)
MessagesOfField(issues, field) ==
    IF issues = <<>> THEN <<>>
    ELSE (IF ~Pathless(Head(issues)) /\ Head(issues).path[1].key = field
          THEN <<Head(issues).message>> ELSE <<>>)
         \o MessagesOfField(Tail(issues), field)

\* C5: issue translation by validateForm. The form-level list holds exactly the
\* messages of the issues with an absent or empty path, and each field's list
\* exactly the messages of the issues whose first path segment names that
\* field, both in issue-list order; a field has a list only if an issue named it.
C5_IssueTranslation ==
    last.op = "validateForm" =>
        LET st == StateOf(last.form)
            issues == last.result.issues
        IN /\ allFormErrors(st) = MessagesOfForm(issues)
           /\ \A f \in ObservedFields : errors(st, f) = MessagesOfField(issues, f)
           /\ \A f \in DOMAIN st.fieldErrors : MessagesOfField(issues, f) # <<>>

\* the list a ghost map of lists holds for field
ListOf(lists, field) == IF field \in DOMAIN lists THEN lists[field] ELSE <<>>

\* the FormState objects that validateForm built
ValidatedObjects ==
    {forms[i].formState : i \in {j \in 1..Len(forms) : hist.forms[j].origin = "validateForm"}}

\* on an object validateForm built and no clear has touched, every field shows
\* the validator's messages followed by the appended ones, in call order
C6_ValidatorThenAppended ==
    \A o \in ValidatedObjects :
        ~hist.objects[o].cleared =>
            \A f \in ObservedFields :
                errors(objects[o], f) =
                    ListOf(hist.objects[o].validated, f) \o ListOf(hist.objects[o].appended, f)

\* an addFieldError(field, m) step appends m to that field's list and leaves
\* every other field's list and the form-level list as they were
C6_AppendStep ==
    Stepped("addFieldError") =>
        LET o == forms[last'.form].formState IN
        /\ errors(objects'[o], last'.field) = Append(errors(objects[o], last'.field), last'.msg)
        /\ \A f \in ObservedFields \ {last'.field} :
               errors(objects'[o], f) = errors(objects[o], f)
        /\ allFormErrors(objects'[o]) = allFormErrors(objects[o])

\* C6: addFieldError is purely additive. After validateForm and any number of
\* addFieldError calls with no clear in between, errors(field) is the
\* validator's messages for the field in issue order followed by the appended
\* messages in call order; each call removes and reorders nothing and leaves
\* the other fields' lists and the form-level list unchanged.
C6_PurelyAdditive == []C6_ValidatorThenAppended /\ [][C6_AppendStep]_vars

\* C6 witness: a field with a validator message and two appended messages
C6_Witness ==
    \E o \in ValidatedObjects : \E f \in ObservedFields :
        /\ ~hist.objects[o].cleared
        /\ Len(ListOf(hist.objects[o].validated, f)) > 0
        /\ Len(ListOf(hist.objects[o].appended, f)) > 1
        /\ Len(errors(objects[o], f)) > 2

\* C7: for every field the schema declares as an array, directly or under
\* optional/default, validateForm yields getAll(field) equal to the values
\* submitted under that key, all N >= 0 of them, in submission order.
C7_ArrayFieldKeepsAll ==
    last.op = "validateForm" =>
        \A f \in DOMAIN schema :
            DeclaredArray(schema[f]) =>
                getAll(StateOf(last.form), f) = formDataGetAll(last.formData, f)

\* C8: for every field the schema declares as a scalar, validateForm keeps the
\* first submitted value only: the record entry is that single string, get is
\* that string and getAll has exactly one element; when the key was not
\* submitted the record entry is the empty string.
C8_ScalarFieldKeepsFirst ==
    last.op = "validateForm" =>
        \A f \in DOMAIN schema :
            ~DeclaredArray(schema[f]) =>
                LET st == StateOf(last.form)
                    submitted == formDataGetAll(last.formData, f)
                IN /\ f \in DOMAIN st.record
                   /\ IF submitted = <<>>
                      THEN st.record[f] = StringValue("")
                      ELSE /\ st.record[f] = StringValue(submitted[1])
                           /\ get(st, f) = Str(submitted[1])
                           /\ Len(getAll(st, f)) = 1

\* C9: stray submission keys are ignored: the record validateForm hands to the
\* validate capability and the record serialize() returns hold no key that is
\* not a field of the schema.
C9_NoStrayKeys ==
    /\ \A p \in 1..Len(pending) : DOMAIN pending[p].record \subseteq DOMAIN schema
    /\ last.op = "validateForm" =>
           DOMAIN objects[serialize(forms[last.form])].record \subseteq DOMAIN schema

\* what the documented policy makes of a record entry: missing or "" is false,
\* any other string is true, the first element decides for a string[]
NonEmptyFirst(st, field) ==
    /\ field \in DOMAIN st.record
    /\ Len(st.record[field].items) > 0
    /\ st.record[field].items[1] # ""

\* C10: isTrue(field) is false when the field is missing or holds the empty
\* string and true for every other string value, the first element deciding
\* for a multi-valued entry.
C10_IsTruePolicy ==
    \A i \in 1..Len(forms) : \A f \in ObservedFields :
        isTrue(impl, StateOf(i), f) = NonEmptyFirst(StateOf(i), f)

\* C11: get(field) never fails and always returns a string: the first value
\* when the record holds one (the first element of a multi-value entry), and
\* the empty string otherwise, also when the field is absent or the record
\* entry is an empty sequence.
C11_GetReturnsString ==
    \A i \in 1..Len(forms) : \A f \in ObservedFields :
        LET st == StateOf(i) IN
        get(st, f) = IF f \in DOMAIN st.record /\ Len(st.record[f].items) > 0
                     THEN Str(st.record[f].items[1])
                     ELSE Str("")

\* C12: isValid() is true exactly when the form-level error list is empty and
\* isInvalid(field) is false for every field, a key whose list clear emptied
\* not counting as invalid; isNotValid() is the negation of isValid().
C12_ValidIffNoErrors ==
    \A i \in 1..Len(forms) :
        LET st == StateOf(i) IN
        /\ isValid(st) <=>
               /\ allFormErrors(st) = <<>>
               /\ \A f \in ObservedFields \cup DOMAIN st.fieldErrors : ~isInvalid(st, f)
        /\ isNotValid(st) <=> ~isValid(st)

\* C12 witness: the validator's errors for a field were emptied by clear, the
\* key is still in the field error collection, and the form is valid again
C12_Witness ==
    \E i \in 1..Len(forms) : \E f \in ObservedFields :
        /\ hist.forms[i].origin = "validateForm"
        /\ Len(ListOf(hist.objects[forms[i].formState].validated, f)) > 0
        /\ hist.objects[forms[i].formState].cleared
        /\ f \in DOMAIN StateOf(i).fieldErrors
        /\ isValid(StateOf(i))

\* the record entry of a field, if any
RecordEntry(st, field) ==
    IF field \in DOMAIN st.record THEN <<st.record[field]>> ELSE <<>>

\* a clear(field) step empties that field and touches nothing else
C13_ClearStep ==
    Stepped("clear") =>
        LET o == forms[last'.form].formState
            f == last'.field
        IN /\ get(objects'[o], f) = Str("")
           /\ getAll(objects'[o], f) = <<>>
           /\ errors(objects'[o], f) = <<>>
           /\ ~isInvalid(objects'[o], f)
           /\ \A g \in (ObservedFields \cup KeysOf(objects[o]) \cup KeysOf(objects'[o])) \ {f} :
                  /\ RecordEntry(objects'[o], g) = RecordEntry(objects[o], g)
                  /\ errors(objects'[o], g) = errors(objects[o], g)
           /\ allFormErrors(objects'[o]) = allFormErrors(objects[o])

\* addFieldError(field, m) right after clear(field) on the same form state
C13_AddAfterClearStep ==
    (/\ last.op = "clear"
     /\ Stepped("addFieldError")
     /\ forms[last'.form].formState = forms[last.form].formState
     /\ last'.field = last.field)
    => errors(objects'[forms[last'.form].formState], last'.field) = <<last'.msg>>

\* C13: clear(field) resets exactly that field: afterwards get(field) is the
\* empty string, getAll(field) and errors(field) are empty and isInvalid(field)
\* is false, the record value and error list of every other field and the
\* form-level list are unchanged; addFieldError(field, m) after it yields
\* errors(field) = [m].
C13_ClearResetsField == [][C13_ClearStep]_vars /\ [][C13_AddAfterClearStep]_vars

\* C13 witness: the validator gave the field an error and the form a form-level
\* error; after clear(field) and addFieldError(field, m) the field shows m only,
\* while another field keeps its value and the form-level list its message
C13_Witness ==
    /\ last.op = "addFieldError"
    /\ LET o == forms[last.form].formState IN
       /\ hist.objects[o].cleared
       /\ Len(ListOf(hist.objects[o].validated, last.field)) > 0
       /\ errors(objects[o], last.field) = <<last.msg>>
       /\ getAll(objects[o], last.field) = <<>>
       /\ \E g \in ObservedFields \ {last.field} : get(objects[o], g) \notin {Str(""), Undefined}
       /\ allFormErrors(objects[o]) # <<>>

\* C14: right after clearAll(), every field name the record or the field error
\* collection of the form state held at some earlier point has get(field)
\* equal to the empty string and getAll(field) and errors(field) empty.
C14_ClearAllEmptiesEverSeen ==
    last.op = "clearAll" =>
        LET o == forms[last.form].formState IN
        \A f \in hist.objects[o].seen :
            /\ get(objects[o], f) = Str("")
            /\ getAll(objects[o], f) = <<>>
            /\ errors(objects[o], f) = <<>>

\* C14 witness: clearAll on a form state that held a field in the record only
\* and a field that entered the error collection by addFieldError only
C14_Witness ==
    /\ last.op = "clearAll"
    /\ LET o == forms[last.form].formState IN
       /\ \E f \in hist.objects[o].seen :
              /\ f \notin DOMAIN hist.objects[o].validated
              /\ f \in DOMAIN hist.objects[o].appended
              /\ f \in DOMAIN objects[o].fieldErrors
       /\ \E g \in hist.objects[o].seen :
              /\ g \notin DOMAIN hist.objects[o].validated
              /\ g \notin DOMAIN hist.objects[o].appended
       /\ Cardinality(hist.objects[o].seen) > 1

\* the kinds of leaf a form field may have
AllowedKinds == {"string", "stringFormat", "boolean", "number", "date", "bigint"}
StringKinds == {"string", "stringFormat"}

\* a declared shape without its optional/default modifiers
RECURSIVE WithoutModifiers(_)
WithoutModifiers(shape) ==
    IF shape.tag \in {"optional", "default"} THEN WithoutModifiers(shape.innerType) ELSE shape

\* the field is an array field
ArrayField(shape) == WithoutModifiers(shape).tag = "array"

\* what a field resolves to: its shape without modifiers, and for an array
\* field the element without modifiers
ResolvesTo(shape) ==
    IF ArrayField(shape)
    THEN WithoutModifiers(WithoutModifiers(shape).element)
    ELSE WithoutModifiers(shape)

\* the resolved kind is outside the allowed set (a nested array is no leaf)
UnsupportedKind(shape) ==
    ResolvesTo(shape).tag # "leaf" \/ ResolvesTo(shape).kind \notin AllowedKinds

\* an allowed kind that is not a string kind and does not declare coercion
LacksCoercion(shape) ==
    /\ ~UnsupportedKind(shape)
    /\ ResolvesTo(shape).kind \notin StringKinds
    /\ ~ResolvesTo(shape).coerce

Offending(shape) == UnsupportedKind(shape) \/ LacksCoercion(shape)

OffendingFields == {f \in DOMAIN schema : Offending(schema[f])}

C16_Acceptance ==
    (setup.done /\ OffendingFields = {}) =>
        /\ ~setup.error.threw
        /\ OperationsReturned

\* C16 witness: form.ts accepted a field under two wrappers, and a returned
\* entry operation has built a form
C16_Witness ==
    /\ impl = "Zod"
    /\ OperationsReturned
    /\ OffendingFields = {}
    /\ schema["name"].tag \in {"optional", "default"}
    /\ schema["name"].innerType.tag \in {"optional", "default", "array"}
    /\ ResolvesTo(schema["name"]).kind \notin StringKinds
    /\ Len(forms) > 0

\* the first field, in declaration order, that offends
FirstOffending ==
    fieldOrder[CHOOSE i \in 1..Len(fieldOrder) :
                   /\ fieldOrder[i] \in OffendingFields
                   /\ \A j \in 1..(i - 1) : fieldOrder[j] \notin OffendingFields]

\* the coercing variant the message tells to use, for each kind
CoercingVariant(kind) == "z.coerce." \o kind \o "()"

\* C17: the setup-time error is that of the first offending field in
\* declaration order; it carries the array-element qualifier exactly when the
\* offending leaf is the element of an array field; an unsupported kind gives
\* the 'unsupported type' error, also when it declares no coercion, and an
\* allowed kind without coercion gives the 'no coercion' error, which names
\* the coercing variant of that kind.
C17_ErrorContents ==
    setup.error.threw =>
        LET e == setup.error
            shape == schema[e.fieldName]
        IN /\ e.fieldName = FirstOffending
           /\ (e.suffix = "[] (array element)") <=> ArrayField(shape)
           /\ e.suffix \in {"", "[] (array element)"}
           /\ UnsupportedKind(shape) <=> e.reason = "unsupported type"
           /\ LacksCoercion(shape) <=> e.reason = "no coercion"
           /\ e.reason = "no coercion" =>
                  /\ CoercingVariant(ToLowerCase(e.typeDescription))
                         = CoercingVariant(ResolvesTo(shape).kind)
                  /\ e.message # UnsupportedTypeError(e.fieldName, e.suffix, e.typeName).message

\* C17 witness: both fields offend, the one declared first is an array field
\* whose element lacks coercion, the other has an unsupported kind
C17_Witness ==
    /\ setup.error.threw
    /\ Cardinality(OffendingFields) = 2
    /\ setup.error.fieldName = fieldOrder[1]
    /\ setup.error.reason = "no coercion"
    /\ setup.error.suffix # ""
    /\ UnsupportedKind(schema[fieldOrder[2]])

\* once createForm is done, the checker has run once (form.ts) and forms exist
\* only if the operations were returned
C18_CheckedOnce ==
    /\ setup.checks <= 1
    /\ (impl = "Zod" /\ setup.done) => setup.checks = 1
    /\ (forms # <<>> \/ pending # <<>>) => OperationsReturned

\* no step after createForm runs the checker again or changes its outcome
C18_NoRecheckStep == setup.done => setup' = setup

Count(messages, m) == Cardinality({j \in 1..Len(messages) : messages[j] = m})

\* how often message m occurs in the lists of the given fields
RECURSIVE CountInFields(_, _, _)
CountInFields(lists, fields, m) ==
    IF fields = {} THEN 0
    ELSE LET f == CHOOSE g \in fields : TRUE
         IN Count(lists[f], m) + CountInFields(lists, fields \ {f}, m)

\* how often message m occurs among the issues
CountInIssues(issues, m) == Cardinality({j \in 1..Len(issues) : issues[j].message = m})

\* the form validateForm returned holds every message of the validator's issues,
\* as often as the validator gave it, in the field lists or the form-level list
C19_IssuesHeld ==
    last.op = "validateForm" =>
        /\ last.form \in 1..Len(forms)
        /\ hist.forms[last.form].result = last.result
        /\ LET st == StateOf(last.form) IN
           \A m \in Messages :
               Count(allFormErrors(st), m) + CountInFields(st.fieldErrors, DOMAIN st.fieldErrors, m)
                   = CountInIssues(last.result.issues, m)

\* a validateForm whose validator returned ends by returning one new form
C19_ReturnStep ==
    Stepped("validateForm") =>
        /\ Len(forms') = Len(forms) + 1
        /\ last'.form = Len(forms')
        /\ hist'.forms[last'.form].origin = "validateForm"

\* C19: per-request validation issues are never thrown. Whenever the validate
\* capability returns, with any list of issues, validateForm completes and
\* returns a form whose field error collection and form-level error list hold
\* those issues' messages.
C19_IssuesAreData == []C19_IssuesHeld /\ [][C19_ReturnStep]_vars

\* C19 witness: the validator returned a pathless issue and an issue whose
\* first path segment is a {key} object, and validateForm returned a form
C19_Witness ==
    /\ last.op = "validateForm"
    /\ Len(last.result.issues) > 1
    /\ \E j \in 1..Len(last.result.issues) : Pathless(last.result.issues[j])
    /\ \E j \in 1..Len(last.result.issues) :
           /\ ~Pathless(last.result.issues[j])
           /\ last.result.issues[j].path[1].isObject
    /\ isNotValid(StateOf(last.form))

\* one invocation of the validate capability per validateForm call
C20_OneInvocationPerCall == hist.invocations = hist.calls

\* a validateForm whose validator raised makes no further invocation, ends the
\* call, builds no form and rejects with the error the validator raised
C20_RaiseStep ==
    Stepped("validateFormRaised") =>
        /\ hist'.invocations = hist.invocations
        /\ hist'.calls = hist.calls
        /\ Len(pending') = Len(pending) - 1
        /\ forms' = forms
        /\ objects' = objects
        /\ last'.msg = last'.raised

\* the wait for and the arrival of the validator's answer invoke nothing more
C20_ReturnStep ==
    (Stepped("validateForm") /\ impl = "StandardSchema") =>
        hist'.invocations = hist.invocations

\* C20: each validateForm call invokes the validate capability exactly once
\* and never retries; if the invocation raises or its awaitable rejects,
\* validateForm fails with that same error and produces no form.
C20_NoRetry ==
    []C20_OneInvocationPerCall /\ [][C20_RaiseStep]_vars /\ [][C20_ReturnStep]_vars

\* C20 witness: a second validateForm call whose validator raised, after a
\* first one that returned a form
C20_Witness ==
    /\ last.op = "validateFormRaised"
    /\ last.msg # ""
    /\ hist.calls = 2
    /\ pending = <<>>
    /\ Len(forms) = 1
    /\ hist.forms[1].origin = "validateForm"

Mutators == {"addFormError", "addFieldError", "clear", "clearAll"}

\* a mutator step on one instance leaves what every other instance shows as it was
C21_MutatorStep ==
    (\E op \in Mutators : Stepped(op)) =>
        \A j \in 1..Len(forms) :
            j # last'.form => Observed(objects'[forms[j].formState]) = Observed(StateOf(j))

\* C21: no shared mutable state across instances. For any two distinct
\* instances made by the entry operations, also one made by loadForm from the
\* other's serialize() output, a mutator on one leaves the result of every
\* accessor on the other unchanged.
C21_NoSharedState == [][C21_MutatorStep]_vars

\* C22: newForm normalization of typed initial values. An entry whose value is
\* null or undefined is left out of the record; every other scalar is stored
\* as its direct string form (0 as "0", false as "false"); an array is stored
\* as the sequence of its stringified items, in order; the form has no field
\* errors and no form errors.
C22_NewFormNormalization ==
    last.op = "newForm" =>
        LET st == StateOf(last.form)
            entries == last.initialValues.entries
        IN /\ DOMAIN st.record = {k \in DOMAIN entries : ~Nullish(entries[k])}
           /\ \A k \in DOMAIN st.record :
                  IF entries[k].type = "array"
                  THEN /\ st.record[k].isArray
                       /\ Len(st.record[k].items) = Len(entries[k].elems)
                       /\ \A j \in 1..Len(entries[k].elems) :
                              ~Nullish(entries[k].elems[j]) =>
                                  st.record[k].items[j] = ToStringJS(entries[k].elems[j])
                  ELSE st.record[k] = StringValue(ToStringJS(entries[k]))
           /\ st.fieldErrors = EmptyObject
           /\ st.formErrors = <<>>

\* C30: boolean initial values round-trip through newForm: isTrue(f) is v
\* after newForm({f: v}) for both booleans v, and false for a field left out
\* of the initial values.
C30_BooleanRoundTrip ==
    last.op = "newForm" =>
        LET st == StateOf(last.form)
            entries == last.initialValues.entries
        IN \A f \in DOMAIN schema :
               /\ f \notin DOMAIN entries => ~isTrue(impl, st, f)
               /\ (f \in DOMAIN entries /\ entries[f].type = "boolean") =>
                      isTrue(impl, st, f) = entries[f].b

\* C23: for every field, error(field) is the first element of errors(field)
\* and is undefined exactly when errors(field) is empty, and isInvalid(field)
\* is true exactly when errors(field) is non-empty, also when a stored message
\* is the empty string.
C23_ErrorAccessorsAgree ==
    \A i \in 1..Len(forms) : \A f \in ObservedFields :
        LET st == StateOf(i) IN
        /\ error(st, f) = IF errors(st, f) = <<>> THEN Undefined ELSE Str(errors(st, f)[1])
        /\ error(st, f) = Undefined <=> errors(st, f) = <<>>
        /\ isInvalid(st, f) <=> errors(st, f) # <<>>

\* C23 witness: a field whose first message is the empty string and that has
\* a second message, and a field whose list clear emptied
C23_Witness ==
    \E i \in 1..Len(forms) : \E f, g \in ObservedFields :
        /\ Len(errors(StateOf(i), f)) > 1
        /\ errors(StateOf(i), f)[1] = ""
        /\ g \in DOMAIN StateOf(i).fieldErrors
        /\ errors(StateOf(i), g) = <<>>

\* the record holds, for an array field, the sequence of all submitted values
HoldsAllAsSequence(record, formData, f) ==
    /\ f \in DOMAIN record
    /\ record[f].isArray
    /\ record[f].items = formDataGetAll(formData, f)

\* C24: for every field the schema declares as an array, the record that
\* validateForm builds and hands to the validate capability holds a sequence
\* with all N >= 0 submitted values in order: one element when the key was
\* submitted once, none when it was not submitted, never a bare string and
\* never an absent key.
C24_ArrayRecordIsSequence ==
    \A f \in {g \in DOMAIN schema : DeclaredArray(schema[g])} :
        /\ \A p \in 1..Len(pending) :
               HoldsAllAsSequence(pending[p].record, pending[p].formData, f)
        /\ last.op = "validateForm" =>
               HoldsAllAsSequence(StateOf(last.form).record, last.formData, f)

\* C25: for an issue with a non-empty path, the field that receives the
\* message is the property key of the first path segment, be it a bare key k
\* or a segment object {key: k}: errors(k) contains the message after
\* validateForm.
C25_FirstSegmentKey ==
    last.op = "validateForm" =>
        \A j \in 1..Len(last.result.issues) :
            LET issue == last.result.issues[j] IN
            ~Pathless(issue) =>
                \E n \in 1..Len(errors(StateOf(last.form), issue.path[1].key)) :
                    errors(StateOf(last.form), issue.path[1].key)[n] = issue.message

\* C26: field error collection invariant. After any entry operation and any
\* sequence of addFieldError, addFormError, clear and clearAll, a key is in the
\* field error map only if an error was added to that field at some earlier
\* point, by validation or by addFieldError.
C26_KeyOnlyAfterError ==
    \A o \in 1..Len(objects) :
        DOMAIN objects[o].fieldErrors \subseteq hist.objects[o].errored

\* the sum of the lengths of the lists of the given fields
RECURSIVE TotalLength(_, _)
TotalLength(lists, fields) ==
    IF fields = {} THEN 0
    ELSE LET f == CHOOSE g \in fields : TRUE
         IN Len(lists[f]) + TotalLength(lists, fields \ {f})

\* C27: issue conservation. Right after validateForm every issue of the
\* validator is in exactly one error list: the length of the form-level list
\* plus the lengths of all field lists is the number of issues, and no list
\* holds a message that no issue carried.
C27_IssueConservation ==
    last.op = "validateForm" =>
        LET st == StateOf(last.form)
            issues == last.result.issues
        IN /\ Len(st.formErrors) + TotalLength(st.fieldErrors, DOMAIN st.fieldErrors)
                  = Len(issues)
           /\ \A n \in 1..Len(st.formErrors) : CountInIssues(issues, st.formErrors[n]) > 0
           /\ \A f \in DOMAIN st.fieldErrors : \A n \in 1..Len(st.fieldErrors[f]) :
                  CountInIssues(issues, st.fieldErrors[f][n]) > 0

\* C27 witness: two issues with the same message for the same field, both kept
C27_Witness ==
    /\ last.op = "validateForm"
    /\ Len(last.result.issues) = 2
    /\ last.result.issues[1] = last.result.issues[2]
    /\ \E f \in DOMAIN StateOf(last.form).fieldErrors :
           /\ Len(StateOf(last.form).fieldErrors[f]) = 2
           /\ StateOf(last.form).formErrors = <<>>

\* every suspended call read its whole record from its own submission data
\* before it was suspended
C28_RecordReadBeforeAwait ==
    \A p \in 1..Len(pending) : pending[p].record = toFormObject(pending[p].formData)

\* the form a call returns is the one the call would build alone from its own
\* submission data and its own validator result, whatever else is suspended;
\* the forms built before and the other suspended calls are untouched
C28_ReturnStep ==
    (Stepped("validateForm") /\ impl = "StandardSchema") =>
        LET alone == validatedState(toFormObject(last'.formData), last'.result) IN
        /\ objects'[forms'[last'.form].formState] = alone
        /\ forms'[last'.form].validationResult = last'.result
        /\ \A j \in 1..Len(forms) : forms'[j] = forms[j]
        /\ \A o \in 1..Len(objects) : objects'[o] = objects[o]
        /\ pending' = RemoveAt(pending, last'.source)
        /\ pending[last'.source].formData = last'.formData

\* C28: concurrent validateForm calls are independent. With two or more calls
\* suspended at their await and the validator results arriving in any order,
\* each returned form's record, field errors, form errors and typed result
\* are those of running that call alone on its own submission data, and the
\* record was read from the submission data before the suspension point.
C28_IndependentCalls == []C28_RecordReadBeforeAwait /\ [][C28_ReturnStep]_vars

\* C28 witness: two calls with different submission data were suspended, and
\* the one made second was answered first, with issues
C28_Witness ==
    /\ last.op = "validateForm"
    /\ last.source = 2
    /\ Len(pending) = 1
    /\ pending[1].formData # last.formData
    /\ last.result.hasIssues
    /\ StateOf(last.form).record = toFormObject(last.formData)

\* a clear or clearAll step leaves the form-level error list as it was
C29_ClearStep ==
    (Stepped("clear") \/ Stepped("clearAll")) =>
        allFormErrors(objects'[forms[last'.form].formState])
            = allFormErrors(objects[forms[last'.form].formState])

\* right after clearAll the form is valid exactly when the form-level list is
\* empty, and another clearAll would change nothing
C29_AfterClearAll ==
    last.op = "clearAll" =>
        /\ isValid(StateOf(last.form)) <=> allFormErrors(StateOf(last.form)) = <<>>
        /\ clearAll(StateOf(last.form)) = StateOf(last.form)

\* C29: clear and clearAll never change the form-level error list; after
\* clearAll() isValid() is true exactly when the form-level list is empty; a
\* second clearAll changes nothing.
C29_ClearKeepsFormErrors == []C29_AfterClearAll /\ [][C29_ClearStep]_vars

\* C29 witness: clearAll on a form with field errors and form-level errors:
\* the fields are emptied, the form-level messages stay and keep it invalid
C29_Witness ==
    /\ last.op = "clearAll"
    /\ LET o == forms[last.form].formState IN
       /\ hist.objects[o].errored # {}
       /\ allFormErrors(objects[o]) # <<>>
       /\ isNotValid(objects[o])
       /\ \A f \in ObservedFields : ~isInvalid(objects[o], f)

====
